---------------------------- MODULE Spec2Model ----------------------------
(***************************************************************************)
(* A model of include/wav.h: wav_read, wav_write and                       *)
(* wav_extract_channel_data, driven by a caller that owns two header       *)
(* variables (header, headerS0) and two buffer variables (data, s0), as    *)
(* the program of the README does.                                         *)
(*                                                                         *)
(* Memory is modelled in bytes.  A buffer is a heap block; an int16_t      *)
(* element i of a block is its bytes 2i and 2i+1.  The file is a sequence  *)
(* of bytes.  A header is written to and read from the file through its    *)
(* 44-byte native (little-endian, unpadded) representation.                *)
(*                                                                         *)
(* Widths.  uint16_t fields are integers below 2^16.  SampleRate and       *)
(* BytePerSec are uint32_t values kept as two 16-bit halves <<hi, lo>>,    *)
(* so that values of 2^31 and more, and the wrap-around of their product,  *)
(* are represented.  FileSize, FmtChunkSize and DataSize are uint32_t      *)
(* values kept as integers: in this model DataSize is at most a few bytes  *)
(* (every buffer is explicit), so none of them reaches 2^31.               *)
(***************************************************************************)
EXTENDS Integers, Sequences, FiniteSets

VARIABLES hdr, ptr, mem, file, status, hist

vars == <<hdr, ptr, mem, file, status, hist>>

(***************************************************************************)
(* Bounds of the model.                                                    *)
(***************************************************************************)
MaxNbChannels == 2     \* source headers have 1..MaxNbChannels channels
MaxFrames     == 2     \* source buffers hold 0..MaxFrames frames
MaxChannelArg == 7     \* the channel argument ranges over 0..MaxChannelArg
MaxSizeArg    == 3     \* the sizeMax argument ranges over -1..MaxSizeArg
MaxCalls      == 2     \* calls the caller makes in one run

(***************************************************************************)
(* The WavHeader structure and its byte representation.                    *)
(***************************************************************************)
HeaderSize == 44

RIFF == <<82, 73, 70, 70>>
WAVE == <<87, 65, 86, 69>>
FMT  == <<102, 109, 116, 32>>
DATA == <<100, 97, 116, 97>>
RIFX == <<82, 73, 70, 88>>

HdrVars == {"header", "headerS0"}
BufVars == {"data", "s0"}
NULL    == 0

\* The bytes of a uint16_t, a uint32_t kept as an integer, and a uint32_t
\* kept as <<hi, lo>>, least significant byte first.
U16Bytes(v)  == <<v % 256, v \div 256>>
U32Bytes(v)  == <<v % 256, (v \div 256) % 256, (v \div 65536) % 256, v \div 16777216>>
WideBytes(w) == U16Bytes(w[2]) \o U16Bytes(w[1])

U16Of(b, o)  == b[o + 1] + 256 * b[o + 2]
U32Of(b, o)  == b[o + 1] + 256 * b[o + 2] + 65536 * b[o + 3] + 16777216 * b[o + 4]
WideOf(b, o) == <<U16Of(b, o + 2), U16Of(b, o)>>

\* The 44 bytes of a header, in the order of the structure's fields.
HeaderBytes(h) ==
    h.FileTypeChunkID \o U32Bytes(h.FileSize) \o h.FileFormatID
      \o h.FormatChunkID \o U32Bytes(h.FmtChunkSize)
      \o U16Bytes(h.AudioFormat) \o U16Bytes(h.NbChannels)
      \o WideBytes(h.SampleRate) \o WideBytes(h.BytePerSec)
      \o U16Bytes(h.BytePerChunk) \o U16Bytes(h.BitsPerSample)
      \o h.DataChunkID \o U32Bytes(h.DataSize)

\* The header whose representation is the 44 bytes b.
HeaderOf(b) ==
    [FileTypeChunkID |-> SubSeq(b, 1, 4),
     FileSize        |-> U32Of(b, 4),
     FileFormatID    |-> SubSeq(b, 9, 12),
     FormatChunkID   |-> SubSeq(b, 13, 16),
     FmtChunkSize    |-> U32Of(b, 16),
     AudioFormat     |-> U16Of(b, 20),
     NbChannels      |-> U16Of(b, 22),
     SampleRate      |-> WideOf(b, 24),
     BytePerSec      |-> WideOf(b, 28),
     BytePerChunk    |-> U16Of(b, 32),
     BitsPerSample   |-> U16Of(b, 34),
     DataChunkID     |-> SubSeq(b, 37, 40),
     DataSize        |-> U32Of(b, 40)]

\* uint32_t product of a uint32_t <<hi, lo>> and a factor below 2^15:
\* the low 32 bits as <<hi, lo>>, and what was carried out of them.
MulWide(w, f) ==
    LET p == w[2] * f
        q == w[1] * f + p \div 65536
    IN  [val |-> <<q % 65536, p % 65536>>, carry |-> q \div 65536]

MulU32(w, f) == MulWide(w, f).val


(***************************************************************************)
(* The heap, the environment and the outcome of a call.                    *)
(***************************************************************************)
\* What the environment decides during one call: whether malloc returns a
\* block (it may return NULL when memory is short, and for a size of 0),
\* which byte uninitialised or out-of-bounds memory reads as, and whether
\* an undefined operation (an access outside a block, a division by zero)
\* traps or goes on.
JunkBytes == {0, 255}

Env ==
    { [allocOk |-> TRUE,  junk |-> 0,   trap |-> FALSE],
      [allocOk |-> TRUE,  junk |-> 255, trap |-> FALSE],
      [allocOk |-> TRUE,  junk |-> 0,   trap |-> TRUE],
      [allocOk |-> FALSE, junk |-> 0,   trap |-> FALSE] }

Min(a, b) == IF a < b THEN a ELSE b

\* free(p): the block is released.
Free(m, p) == [m EXCEPT ![p].live = FALSE]

\* malloc(size) when it returns a block: a new block of size bytes of
\* uninitialised memory, at the address Len(m) + 1.
Malloc(m, size, junk) ==
    Append(m, [live |-> TRUE, bytes |-> [k \in 1..size |-> junk]])

\* Byte k (from 0) of block p lies inside a live block.
InBlock(m, p, k) ==
    /\ p \in 1..Len(m)
    /\ m[p].live
    /\ k >= 0
    /\ k < Len(m[p].bytes)

\* Reading byte k of block p; outside the block the read is undefined and
\* gives the environment's junk byte.
RdByte(m, p, k, junk) == IF InBlock(m, p, k) THEN m[p].bytes[k + 1] ELSE junk

\* Writing byte k of block p; outside the block the write is undefined and
\* lands in memory the model does not hold.
WrByte(m, p, k, v) ==
    IF InBlock(m, p, k) THEN [m EXCEPT ![p].bytes[k + 1] = v] ELSE m

\* The int16_t element i of block p lies inside it.
InElem(m, p, i) == InBlock(m, p, 2 * i) /\ InBlock(m, p, 2 * i + 1)

\* The state a call leaves and what it reports.  result is "ok" (the call
\* returned), "exit" (it printed err and called exit(1)) or "trap" (an
\* undefined operation ended the process).  events are the allocations,
\* releases and stream operations the call attempted, in order.
Outcome(h, p, m, f, result, err, events, info) ==
    [hdr |-> h, ptr |-> p, mem |-> m, file |-> f, result |-> result,
     err |-> err, events |-> events, info |-> info]

NoInfo == [nbData |-> 0, n |-> 0, bytes |-> 0, nread |-> 0, oob |-> FALSE]

(***************************************************************************)
(* wav_write                                                               *)
(***************************************************************************)
\* fwrite(ptr, size, 1, stream): the number of items written, 0 when size
\* is 0.
FwriteItems(size) == IF size = 0 THEN 0 ELSE 1

WavWrite(hv, bv, env) ==
    LET h      == hdr[hv]
        p      == ptr[bv]
        opened == [file EXCEPT !.exists = TRUE, !.bytes = <<>>]
        hbytes == HeaderBytes(h)
        oob    == \E k \in 0..(h.DataSize - 1) : ~InBlock(mem, p, k)
        dbytes == [k \in 1..h.DataSize |-> RdByte(mem, p, k - 1, env.junk)]
    IN  IF file.locked
        THEN Outcome(hdr, ptr, mem, file, "exit", "Cannot open file",
                     <<"fopen">>, NoInfo)
        ELSE IF p = NULL
        THEN Outcome(hdr, ptr, mem, opened, "exit", "Data buffer empty",
                     <<"fopen">>, NoInfo)
        ELSE IF FwriteItems(h.DataSize) = 0
        THEN Outcome(hdr, ptr, mem, [opened EXCEPT !.bytes = hbytes], "exit",
                     "Cannot write data into stream",
                     <<"fopen", "fwrite", "fwrite">>, NoInfo)
        ELSE IF oob /\ env.trap
        THEN Outcome(hdr, ptr, mem, opened, "trap", "",
                     <<"fopen", "fwrite", "fwrite">>,
                     [NoInfo EXCEPT !.oob = TRUE])
        ELSE Outcome(hdr, ptr, mem, [opened EXCEPT !.bytes = hbytes \o dbytes],
                     "ok", "", <<"fopen", "fwrite", "fwrite", "fclose">>,
                     [NoInfo EXCEPT !.oob = oob, !.bytes = h.DataSize])

(***************************************************************************)
(* wav_read                                                                *)
(***************************************************************************)
\* fread(ptr, 1, want, stream) with have bytes left in the stream: the
\* number of bytes read.
FreadCount(want, have) == Min(want, have)

\* The test the code makes of an fread or fwrite result: only a result of
\* 0 is taken as a failure.
IoFailed(count, want) == count = 0

WavRead(hv, bv, env) ==
    LET fb     == file.bytes
        k1     == FreadCount(HeaderSize, Len(fb))
        old    == HeaderBytes(hdr[hv])
        h      == HeaderOf(SubSeq(fb, 1, k1) \o SubSeq(old, k1 + 1, HeaderSize))
        hdr1   == [hdr EXCEPT ![hv] = h]
        p0     == ptr[bv]
        mem1   == IF p0 # NULL THEN Free(mem, p0) ELSE mem
        ev1    == IF p0 # NULL THEN <<"fopen", "fread", "free", "malloc">>
                               ELSE <<"fopen", "fread", "malloc">>
        mem2   == Malloc(mem1, h.DataSize, env.junk)
        p2     == Len(mem2)
        k2     == FreadCount(h.DataSize, Len(fb) - k1)
        mem3   == [mem2 EXCEPT ![p2].bytes =
                      [k \in 1..h.DataSize |->
                          IF k <= k2 THEN fb[k1 + k] ELSE mem2[p2].bytes[k]]]
    IN  IF ~file.exists \/ file.locked
        THEN Outcome(hdr, ptr, mem, file, "exit", "Cannot open file",
                     <<"fopen">>, NoInfo)
        ELSE IF IoFailed(k1, HeaderSize)
        THEN Outcome(hdr, ptr, mem, file, "exit",
                     "Cannot read wav header from stream",
                     <<"fopen", "fread">>, NoInfo)
        ELSE IF h.FileTypeChunkID # RIFF \/ h.FileFormatID # WAVE
        THEN Outcome(hdr1, ptr, mem, file, "exit", "is not a wav file",
                     <<"fopen", "fread">>, NoInfo)
        ELSE IF h.AudioFormat # 1
        THEN Outcome(hdr1, ptr, mem, file, "exit",
                     "Only PCM encoding supported",
                     <<"fopen", "fread">>, NoInfo)
        ELSE IF ~env.allocOk
        THEN Outcome(hdr1, [ptr EXCEPT ![bv] = NULL], mem1, file, "exit",
                     "Cannot allocate memory for data buffer", ev1, NoInfo)
        ELSE IF IoFailed(k2, h.DataSize)
        THEN Outcome(hdr1, [ptr EXCEPT ![bv] = p2], mem2, file, "exit",
                     "Cannot read data from stream",
                     Append(ev1, "fread"), NoInfo)
        ELSE Outcome(hdr1, [ptr EXCEPT ![bv] = p2], mem3, file, "ok", "",
                     ev1 \o <<"fread", "fclose">>,
                     [NoInfo EXCEPT !.nread = k2, !.bytes = h.DataSize])

(***************************************************************************)
(* wav_extract_channel_data                                                *)
(***************************************************************************)
\* The test of the channel argument.
ChannelRejected(channel) == channel > 6

\* ClampSize without its test for a negative sizeMax.
ClampSizeUpperOnly(sizeMax, nbData) ==
    IF sizeMax > nbData THEN nbData ELSE sizeMax

\* sizeMax = (sizeMax < 0 || sizeMax > nbData) ? nbData : sizeMax
ClampSize(sizeMax, nbData) ==
    IF sizeMax < 0 \/ sizeMax > nbData THEN nbData ELSE sizeMax

\* UpdateHeader with BytePerChunk computed before NbChannels is set to 1.
UpdateHeaderChunkFirst(h, sizeMaxBytes) ==
    LET h1 == [h  EXCEPT !.BytePerChunk = (h.NbChannels * h.BitsPerSample) \div 8]
        h2 == [h1 EXCEPT !.NbChannels = 1]
        h3 == [h2 EXCEPT !.DataSize = sizeMaxBytes]
        h4 == [h3 EXCEPT !.BytePerSec = MulU32(h3.SampleRate, h3.BytePerChunk)]
    IN  [h4 EXCEPT !.FileSize = h4.DataSize + HeaderSize - 8]

\* The update of the destination header, field by field in the code's
\* order; each right-hand side reads the header as the assignments before
\* it left it.
UpdateHeader(h, sizeMaxBytes) ==
    LET h1 == [h  EXCEPT !.NbChannels = 1]
        h2 == [h1 EXCEPT !.DataSize = sizeMaxBytes]
        h3 == [h2 EXCEPT !.BytePerChunk = (h2.NbChannels * h2.BitsPerSample) \div 8]
        h4 == [h3 EXCEPT !.BytePerSec = MulU32(h3.SampleRate, h3.BytePerChunk)]
    IN  [h4 EXCEPT !.FileSize = h4.DataSize + HeaderSize - 8]

\* The copy loop from index i on: (*dstData)[i] = (*srcData)[i * N + channel],
\* one int16_t element (two bytes) at a time.
RECURSIVE CopyLoop(_, _, _, _, _, _, _, _)
CopyLoop(m, i, n, dp, sp, N, channel, junk) ==
    IF i >= n THEN m
    ELSE LET s  == i * N + channel
             b0 == RdByte(m, sp, 2 * s, junk)
             b1 == RdByte(m, sp, 2 * s + 1, junk)
             m1 == WrByte(WrByte(m, dp, 2 * i, b0), dp, 2 * i + 1, b1)
         IN  CopyLoop(m1, i + 1, n, dp, sp, N, channel, junk)

\* Some element the loop reads or writes lies outside its block.
LoopOutOfBounds(m, n, dp, sp, N, channel) ==
    \E i \in 0..(n - 1) :
        ~InElem(m, sp, i * N + channel) \/ ~InElem(m, dp, i)

WavExtract(dst, src, dH, sH, channel, sizeMax, env) ==
    LET p0     == ptr[dst]
        mem1   == IF p0 # NULL THEN Free(mem, p0) ELSE mem
        ev1    == IF p0 # NULL THEN <<"free", "malloc">> ELSE <<"malloc">>
        \* memcpy(dstHeader, srcHeader, sizeof(WavHeader))
        hdr1   == [hdr EXCEPT ![dH] = hdr[sH]]
        divisor == hdr1[dH].BytePerChunk
        nbData == IF divisor = 0 THEN 0 ELSE hdr1[sH].DataSize \div divisor
        n      == ClampSize(sizeMax, nbData)
        bytes  == n * (hdr1[sH].BitsPerSample \div 8)
        hdr2   == [hdr1 EXCEPT ![dH] = UpdateHeader(hdr1[dH], bytes)]
        mem2   == Malloc(mem1, bytes, env.junk)
        p2     == Len(mem2)
        ptr2   == [ptr EXCEPT ![dst] = p2]
        N      == hdr2[sH].NbChannels
        oob    == LoopOutOfBounds(mem2, n, ptr2[dst], ptr2[src], N, channel)
        mem3   == CopyLoop(mem2, 0, n, ptr2[dst], ptr2[src], N, channel, env.junk)
        info   == [NoInfo EXCEPT !.nbData = nbData, !.n = n, !.bytes = bytes]
    IN  IF ptr[src] = NULL
        THEN Outcome(hdr, ptr, mem, file, "exit", "Source data buffer empty",
                     <<>>, NoInfo)
        ELSE IF ChannelRejected(channel)
        THEN Outcome(hdr, ptr, mem, file, "exit", "Only 6 channels available",
                     <<>>, NoInfo)
        ELSE IF divisor = 0 /\ env.trap
        THEN Outcome(hdr1, ptr, mem1, file, "trap", "",
                     IF p0 # NULL THEN <<"free">> ELSE <<>>, NoInfo)
        ELSE IF ~env.allocOk
        THEN Outcome(hdr2, [ptr EXCEPT ![dst] = NULL], mem1, file, "exit",
                     "Cannot allocate memory for data buffer", ev1, info)
        ELSE IF oob /\ env.trap
        THEN Outcome(hdr2, ptr2, mem2, file, "trap", "", ev1,
                     [info EXCEPT !.oob = TRUE])
        ELSE Outcome(hdr2, ptr2, mem3, file, "ok", "", ev1,
                     [info EXCEPT !.oob = oob])

(***************************************************************************)
(* The caller: its initial headers, buffers and file, and its calls.       *)
(***************************************************************************)
Rates   == {<<0, 8000>>, <<32768, 0>>}     \* 8000 Hz and 2^31 Hz
BitsSet == {8, 16}

\* A header of nbChannels channels, bits bits per sample and frames frames,
\* its derived fields computed as section 3 of the specification defines
\* them (BytePerSec in 32 bits).
MakeHeader(nbChannels, bits, frames, rate) ==
    LET chunk == (nbChannels * bits) \div 8
    IN  [FileTypeChunkID |-> RIFF,
         FileSize        |-> frames * chunk + HeaderSize - 8,
         FileFormatID    |-> WAVE,
         FormatChunkID   |-> FMT,
         FmtChunkSize    |-> 16,
         AudioFormat     |-> 1,
         NbChannels      |-> nbChannels,
         SampleRate      |-> rate,
         BytePerSec      |-> MulU32(rate, chunk),
         BytePerChunk    |-> chunk,
         BitsPerSample   |-> bits,
         DataChunkID     |-> DATA,
         DataSize        |-> frames * chunk]

SrcHeaders ==
    { MakeHeader(c, b, f, r) :
        c \in 1..MaxNbChannels, b \in BitsSet, f \in 0..MaxFrames, r \in Rates }

BaseHeader   == MakeHeader(1, 16, 1, <<0, 8000>>)
StaleHeader  == MakeHeader(1, 16, 1, <<0, 11025>>)
NotPcmHeader == [BaseHeader EXCEPT !.AudioFormat = 3]
BadTagHeader == [BaseHeader EXCEPT !.FileTypeChunkID = RIFX]
NoChunkHeader == [BaseHeader EXCEPT !.BytePerChunk = 0]

\* A payload of len bytes, each byte different from the others.
Payload(len) == [k \in 1..len |-> 16 + k]

Block(bytes) == [live |-> TRUE, bytes |-> bytes]
StaleBlock   == Block(<<7, 7>>)
OldFile      == [exists |-> TRUE, locked |-> FALSE, bytes |-> <<1, 2, 3>>]
NoFile       == [exists |-> FALSE, locked |-> FALSE, bytes |-> <<>>]

\* The caller holds a header and a buffer it built itself: has says that
\* the buffer data is allocated, old that s0 holds a buffer already, f is
\* the file (one that can be opened, or one that cannot).
MemoryStart(h, has, old, f) ==
    [hdr  |-> [header |-> h, headerS0 |-> StaleHeader],
     ptr  |-> [data |-> IF has THEN 1 ELSE NULL,
               s0   |-> IF ~old THEN NULL ELSE IF has THEN 2 ELSE 1],
     mem  |-> (IF has THEN <<Block(Payload(h.DataSize))>> ELSE <<>>)
                \o (IF old THEN <<StaleBlock>> ELSE <<>>),
     file |-> f]

MemoryStarts ==
    { MemoryStart(h, has, old, OldFile) :
        h \in SrcHeaders \cup {NoChunkHeader}, has \in BOOLEAN, old \in BOOLEAN }
      \cup { MemoryStart(BaseHeader, TRUE, old, [OldFile EXCEPT !.locked = TRUE]) :
               old \in BOOLEAN }

\* The streams the file may hold: a header followed by 0 to DataSize bytes
\* of payload, a stream cut inside the header, and an empty one.
Streams ==
    UNION { { HeaderBytes(h) \o Payload(k) : k \in 0..h.DataSize } :
              h \in {x \in SrcHeaders : x.SampleRate = <<0, 8000>>}
                       \cup {NotPcmHeader, BadTagHeader} }
      \cup {SubSeq(HeaderBytes(BaseHeader), 1, 12), <<>>}

\* The caller holds a file to read.
FileStarts ==
    { [hdr  |-> [header |-> StaleHeader, headerS0 |-> StaleHeader],
       ptr  |-> [data |-> IF old THEN 1 ELSE NULL, s0 |-> NULL],
       mem  |-> IF old THEN <<StaleBlock>> ELSE <<>>,
       file |-> f] :
        old \in BOOLEAN,
        f \in { [exists |-> TRUE, locked |-> FALSE, bytes |-> b] : b \in Streams }
                \cup {NoFile} }

Init ==
    \E s \in MemoryStarts \cup FileStarts :
        /\ hdr = s.hdr
        /\ ptr = s.ptr
        /\ mem = s.mem
        /\ file = s.file
        /\ status = "running"
        /\ hist = <<>>

\* The header and buffer variables a call is given.
Pairs == {<<"header", "data">>, <<"headerS0", "s0">>}

NoArgs == [hdr |-> "", buf |-> "", srcHdr |-> "", srcBuf |-> "",
           channel |-> 0, sizeMax |-> 0]

\* The call's effect on the state, and its record in the history: its
\* arguments, the state before it and what it reported.
Apply(op, args, o) ==
    /\ hdr' = o.hdr
    /\ ptr' = o.ptr
    /\ mem' = o.mem
    /\ file' = o.file
    /\ status' = CASE o.result = "ok"   -> "running"
                   [] o.result = "exit" -> "exited"
                   [] OTHER             -> "crashed"
    /\ hist' = Append(hist,
                 [op |-> op, args |-> args, result |-> o.result,
                  err |-> o.err, events |-> o.events, info |-> o.info,
                  pre |-> [hdr |-> hdr, ptr |-> ptr, mem |-> mem, file |-> file]])

CanCall == status = "running" /\ Len(hist) < MaxCalls

\* The extraction is the last call of a run.
Extracted == \E i \in 1..Len(hist) : hist[i].op = "wav_extract_channel_data"

\* The extraction is made on the pair the caller built itself or, as in
\* the README, on the pair a first wav_read produced.
CanExtract ==
    /\ CanCall
    /\ \/ hist = <<>>
       \/ Len(hist) = 1 /\ hist[1].op = "wav_read"

wav_read ==
    /\ CanCall
    /\ ~Extracted
    /\ \E pr \in Pairs, env \in Env :
          Apply("wav_read", [NoArgs EXCEPT !.hdr = pr[1], !.buf = pr[2]],
                WavRead(pr[1], pr[2], env))

wav_write ==
    /\ CanCall
    /\ ~Extracted
    /\ \E pr \in Pairs, env \in Env :
          Apply("wav_write", [NoArgs EXCEPT !.hdr = pr[1], !.buf = pr[2]],
                WavWrite(pr[1], pr[2], env))

wav_extract_channel_data ==
    /\ CanExtract
    /\ \E dst \in BufVars, dH \in HdrVars, channel \in 0..MaxChannelArg,
          sizeMax \in (-1)..MaxSizeArg, env \in Env :
          Apply("wav_extract_channel_data",
                [hdr |-> dH, buf |-> dst, srcHdr |-> "header",
                 srcBuf |-> "data", channel |-> channel, sizeMax |-> sizeMax],
                WavExtract(dst, "data", dH, "header", channel, sizeMax, env))

Next == wav_read \/ wav_write \/ wav_extract_channel_data

Spec == Init /\ [][Next]_vars

(***************************************************************************)
(* Vocabulary of the properties.                                           *)
(***************************************************************************)
Calls == 1..Len(hist)

\* The state call i left.
After(i) ==
    IF i < Len(hist) THEN hist[i + 1].pre
    ELSE [hdr |-> hdr, ptr |-> ptr, mem |-> mem, file |-> file]

IsRead(i)    == hist[i].op = "wav_read"
IsWrite(i)   == hist[i].op = "wav_write"
IsExtract(i) == hist[i].op = "wav_extract_channel_data"

AllocFailed(i) == hist[i].err = "Cannot allocate memory for data buffer"

\* The header and the bytes of the buffer a call was given as its source
\* (for wav_write, the pair it writes), before the call.
SrcHeader(i) ==
    IF IsExtract(i) THEN hist[i].pre.hdr[hist[i].args.srcHdr]
    ELSE hist[i].pre.hdr[hist[i].args.hdr]

SrcPtr(i) ==
    IF IsExtract(i) THEN hist[i].pre.ptr[hist[i].args.srcBuf]
    ELSE hist[i].pre.ptr[hist[i].args.buf]

SrcBytes(i) == hist[i].pre.mem[SrcPtr(i)].bytes

\* The header and the buffer a call wrote to, after the call.
OutHeader(i) == After(i).hdr[hist[i].args.hdr]
OutPtr(i)    == After(i).ptr[hist[i].args.buf]
OutBytes(i)  == After(i).mem[OutPtr(i)].bytes

\* The invariants of section 3 of the specification, as integers.
Sec3Valid(h) ==
    /\ h.FileTypeChunkID = RIFF
    /\ h.FileFormatID = WAVE
    /\ h.AudioFormat = 1
    /\ h.BytePerChunk = (h.NbChannels * h.BitsPerSample) \div 8
    /\ h.BytePerChunk > 0
    /\ h.BytePerSec[2] = (h.SampleRate[2] * h.BytePerChunk) % 65536
    /\ h.BytePerSec[1] = h.SampleRate[1] * h.BytePerChunk
                           + (h.SampleRate[2] * h.BytePerChunk) \div 65536
    /\ h.FileSize = h.DataSize + 36
    /\ h.DataSize % h.BytePerChunk = 0

\* The source of call i is a valid header with a buffer of exactly DataSize
\* bytes.
WellFormedSource(i) ==
    /\ Sec3Valid(SrcHeader(i))
    /\ SrcPtr(i) # NULL
    /\ Len(SrcBytes(i)) = SrcHeader(i).DataSize

\* The extraction's destination variables are not its source variables.
Separate(i) ==
    /\ hist[i].args.hdr # hist[i].args.srcHdr
    /\ hist[i].args.buf # hist[i].args.srcBuf

\* The frames the source of call i holds, and the frame count the
\* extraction is to use for a given sizeMax.
Available(i) == SrcHeader(i).DataSize \div SrcHeader(i).BytePerChunk

Effective(i) ==
    IF hist[i].args.sizeMax < 0 \/ hist[i].args.sizeMax > Available(i)
    THEN Available(i)
    ELSE hist[i].args.sizeMax

\* The 16-bit sample k of a sequence of bytes.
Sample(bytes, k) == <<bytes[2 * k + 1], bytes[2 * k + 2]>>

(***************************************************************************)
(* The properties.                                                         *)
(***************************************************************************)

\* C1 (round trip): for every header that satisfies the invariants of
\* section 3 (DataSize = 0 included) and every buffer of DataSize bytes,
\* wav_write succeeds, and a wav_read of the written file that follows it
\* succeeds (unless malloc fails) and yields the same header and the same
\* bytes.
RoundTrip ==
    \A i \in Calls :
        (IsWrite(i) /\ WellFormedSource(i) /\ ~hist[i].pre.file.locked)
        => /\ hist[i].result = "ok"
           /\ (i < Len(hist) /\ IsRead(i + 1) /\ ~AllocFailed(i + 1))
                => /\ hist[i + 1].result = "ok"
                   /\ OutHeader(i + 1) = SrcHeader(i)
                   /\ OutBytes(i + 1) = SrcBytes(i)

\* C2 (extraction gather): after a successful extraction of channel c < N
\* from a well-formed source of N channels, the destination holds exactly
\* n 16-bit samples, n the clamped frame count, and its sample k is the
\* source's sample k * N + c, for every k below n.
ExtractionGather ==
    \A i \in Calls :
        (/\ IsExtract(i)
         /\ hist[i].result = "ok"
         /\ WellFormedSource(i)
         /\ Separate(i)
         /\ hist[i].args.channel < SrcHeader(i).NbChannels)
        => LET N == SrcHeader(i).NbChannels
               c == hist[i].args.channel
           IN  /\ Len(OutBytes(i)) = 2 * Effective(i)
               /\ \A k \in 0..(Effective(i) - 1) :
                     /\ 2 * (k * N + c) + 2 <= Len(SrcBytes(i))
                     /\ Sample(OutBytes(i), k) = Sample(SrcBytes(i), k * N + c)

\* C3 as claimed (derived fields, exactly): the header a successful
\* extraction produces has NbChannels = 1,
\* BytePerChunk = NbChannels * BitsPerSample / 8,
\* BytePerSec = SampleRate * BytePerChunk as integers, nothing carried out
\* of the 32 bits of the field, and FileSize = DataSize + 44 - 8.
DerivedFieldsExact ==
    \A i \in Calls :
        (IsExtract(i) /\ hist[i].result = "ok")
        => LET d == OutHeader(i)
               p == d.SampleRate[2] * d.BytePerChunk
               q == d.SampleRate[1] * d.BytePerChunk + p \div 65536
           IN  /\ d.NbChannels = 1
               /\ d.BytePerChunk = (d.NbChannels * d.BitsPerSample) \div 8
               /\ d.BytePerSec = <<q, p % 65536>>
               /\ d.FileSize = d.DataSize + 44 - 8

\* C3 as amended (derived fields, in 32 bits): the header a successful
\* extraction produces has NbChannels = 1,
\* BytePerChunk = NbChannels * BitsPerSample / 8,
\* FileSize = DataSize + 44 - 8, and BytePerSec equal to the low 32 bits of
\* SampleRate * BytePerChunk.
DerivedFieldsModulo ==
    \A i \in Calls :
        (IsExtract(i) /\ hist[i].result = "ok")
        => LET d == OutHeader(i)
               p == d.SampleRate[2] * d.BytePerChunk
               q == d.SampleRate[1] * d.BytePerChunk + p \div 65536
           IN  /\ d.NbChannels = 1
               /\ d.BytePerChunk = (d.NbChannels * d.BitsPerSample) \div 8
               /\ d.BytePerSec = <<q % 65536, p % 65536>>
               /\ d.FileSize = d.DataSize + 44 - 8

\* A successful extraction from a two-channel source whose product
\* SampleRate * BytePerChunk (2^31 * 2) does not fit 32 bits.
DerivedFieldsWitness ==
    \E i \in Calls :
        /\ IsExtract(i)
        /\ hist[i].result = "ok"
        /\ SrcHeader(i).NbChannels = 2
        /\ OutHeader(i).SampleRate = <<32768, 0>>
        /\ OutHeader(i).BytePerChunk = 2
        /\ OutHeader(i).DataSize > 0

\* C4 (channel bound): an extraction from an allocated source buffer with
\* a channel index of 6 or more fails with the invalid-channel error and
\* leaves the headers, the buffer variables and the heap as they were.
ChannelBound ==
    \A i \in Calls :
        (IsExtract(i) /\ SrcPtr(i) # NULL /\ hist[i].args.channel >= 6)
        => /\ hist[i].result = "exit"
           /\ hist[i].err = "Only 6 channels available"
           /\ After(i).hdr = hist[i].pre.hdr
           /\ After(i).ptr = hist[i].pre.ptr
           /\ After(i).mem = hist[i].pre.mem

\* C5 (empty-source rejection): wav_extract_channel_data and wav_write,
\* given a NULL source buffer, fail having attempted no allocation, no
\* release and no stream operation, the file left as it was.
EmptySourceRejection ==
    \A i \in Calls :
        ((IsExtract(i) \/ IsWrite(i)) /\ SrcPtr(i) = NULL)
        => /\ hist[i].result = "exit"
           /\ hist[i].events = <<>>
           /\ After(i) = hist[i].pre

\* C6 (short-stream rejection): wav_read of a stream whose header passes
\* the validation and which holds fewer than DataSize bytes after it fails,
\* with the end-of-stream error unless malloc failed first; and wav_read
\* succeeds only when it read DataSize bytes into the buffer.
ShortStreamRejection ==
    \A i \in Calls :
        LET f == hist[i].pre.file
            h == HeaderOf(SubSeq(f.bytes, 1, HeaderSize))
        IN  (/\ IsRead(i)
             /\ f.exists
             /\ ~f.locked
             /\ Len(f.bytes) >= HeaderSize
             /\ h.FileTypeChunkID = RIFF
             /\ h.FileFormatID = WAVE
             /\ h.AudioFormat = 1)
            => /\ Len(f.bytes) - HeaderSize < h.DataSize
                  => /\ hist[i].result = "exit"
                     /\ AllocFailed(i) \/ hist[i].err = "Cannot read data from stream"
               /\ hist[i].result = "ok" => hist[i].info.nread = h.DataSize

SourceUntouched ==
    \A i \in Calls :
        IsExtract(i)
        => /\ After(i).hdr[hist[i].args.srcHdr] = SrcHeader(i)
           /\ After(i).ptr[hist[i].args.srcBuf] = SrcPtr(i)
           /\ SrcPtr(i) # NULL
                => After(i).mem[SrcPtr(i)] = hist[i].pre.mem[SrcPtr(i)]
           /\ hist[i].result = "ok"
                => /\ OutPtr(i) \notin 1..Len(hist[i].pre.mem)
                   /\ OutPtr(i) # SrcPtr(i)
                   /\ After(i).mem[OutPtr(i)].live

\* C9 (no partial results): when wav_read or wav_extract_channel_data
\* fails, the output header is as it was before the call and the output
\* buffer variable is NULL or holds, unchanged, the buffer it held before.
NoPartialResults ==
    \A i \in Calls :
        ((IsRead(i) \/ IsExtract(i)) /\ hist[i].result = "exit")
        => /\ OutHeader(i) = hist[i].pre.hdr[hist[i].args.hdr]
           /\ \/ OutPtr(i) = NULL
              \/ /\ OutPtr(i) = hist[i].pre.ptr[hist[i].args.buf]
                 /\ After(i).mem[OutPtr(i)] = hist[i].pre.mem[OutPtr(i)]

\* C10 (the copy loop stays in bounds): for a well-formed source of 1 to
\* 6 channels and 8 or 16 bits per sample and a channel below NbChannels,
\* every element the loop reads lies in the source buffer and every
\* element it writes lies in the destination buffer.
CopyLoopInBounds ==
    \A i \in Calls :
        (/\ IsExtract(i)
         /\ WellFormedSource(i)
         /\ Separate(i)
         /\ SrcHeader(i).NbChannels \in 1..6
         /\ SrcHeader(i).BitsPerSample \in {8, 16}
         /\ hist[i].args.channel < SrcHeader(i).NbChannels)
        => ~hist[i].info.oob

=============================================================================
